---- MODULE Spec2Model ----
(***************************************************************************)
(* Model of utils/train.py: the checkpoint-path derivation (flatten_dict,  *)
(* dict2str, backend_hpars_prefix), the training loop with early stopping  *)
(* and single-slot checkpoint retention (train), and the evaluation        *)
(* pipeline (evaluate).                                                    *)
(*                                                                         *)
(* Metric values are integers: a maximize-type metric m in [0, 1] is       *)
(* represented by 10*m, so the values 0.1, 0.3, 0.2 are 1, 3, 2.           *)
(***************************************************************************)
EXTENDS Integers, Sequences, FiniteSets, TLC

\* ---------------------------------------------------------------- bounds
MaxEpochs == 5
MaxEpochsEvaluated == 3
MaxPatience == 2
MaxMetric == 3
MaxBatches == 3
MaxBatchValue == 1
MaxCalls == 2

\* ------------------------------------------------------- program constants
\* best_metric = 0e0 (maximize) and best_metric = 1e6 (minimize)
BestMetricInitMax == 0
BestMetricInitMin == 1000000

IGNORED_HYPERPARS == {"atom_list", "optimizer"}
METRIC_TYPES == {"valid", "unique", "novel", "score"}

\* Python's None (best_model_path before the first save, train's result)
None == "None"

\* ------------------------------------------------- python values and dicts
\* A value is an int, a str or a dict; a dict is the sequence of its items
\* in insertion order, each item a key and a value.
IntV(n) == [t |-> "int", i |-> n, s |-> "", d |-> <<>>]
StrV(x) == [t |-> "str", i |-> 0, s |-> x, d |-> <<>>]
DictV(items) == [t |-> "dict", i |-> 0, s |-> "", d |-> items]
Item(k, v) == [key |-> k, value |-> v]

\* str(value) as an f-string renders it
PyStr(v) == IF v.t = "int" THEN ToString(v.i) ELSE v.s

HasKey(items, k) == \E j \in 1..Len(items) : items[j].key = k

\* d[k] for a key that is present
Get(items, k) == (CHOOSE j \in 1..Len(items) : items[j].key = k)
GetValue(items, k) == items[Get(items, k)].value

\* d[k] = v : an existing key keeps its position, a new key is appended
Put(items, k, v) ==
    IF HasKey(items, k)
    THEN [j \in 1..Len(items) |-> IF items[j].key = k THEN Item(k, v) ELSE items[j]]
    ELSE Append(items, Item(k, v))

RECURSIVE PutAll(_, _, _)
PutAll(acc, items, j) ==
    IF j > Len(items) THEN acc
    ELSE PutAll(Put(acc, items[j].key, items[j].value), items, j + 1)

\* flatten_dict(d, input_key): the comprehension's key is the leaf key k in
\* both branches of "k if input_key else k", so parent keys are dropped.
RECURSIVE flatten_dict(_, _)
RECURSIVE FlattenItems(_, _, _)
FlattenItems(items, j, acc) ==
    IF j > Len(items) THEN acc
    ELSE FlattenItems(items, j + 1,
                      PutAll(acc, flatten_dict(items[j].value, items[j].key), 1))

flatten_dict(d, input_key) ==
    IF d.t = "dict" THEN FlattenItems(d.d, 1, <<>>)
    ELSE << Item(input_key, d) >>

\* {prefix + str(k): v for k, v in value.items()}
PrefixKeys(prefix, items) ==
    PutAll(<<>>, [j \in 1..Len(items) |-> Item(prefix \o items[j].key, items[j].value)], 1)

RECURSIVE backend_hpars_prefix(_)
RECURSIVE PrefixItems(_, _, _)
PrefixItems(items, j, o) ==
    IF j > Len(items) THEN o
    ELSE LET key == items[j].key
             value == items[j].value
             nv == IF key = "bvt_hpars" THEN DictV(PrefixKeys("vt", value.d))
                   ELSE IF key = "be_hpars" THEN DictV(PrefixKeys("e", value.d))
                   ELSE IF key = "bet_hpars" THEN DictV(PrefixKeys("et", value.d))
                   ELSE IF value.t = "dict" THEN DictV(backend_hpars_prefix(value.d))
                   ELSE value
         IN  PrefixItems(items, j + 1, Put(o, key, nv))

backend_hpars_prefix(items) == PrefixItems(items, 1, <<>>)

\* '_'.join(f'{key}={value}' for key, value in d.items() if key not in IGNORED)
RECURSIVE JoinFrom(_, _, _)
JoinFrom(items, j, first) ==
    IF j > Len(items) THEN ""
    ELSE IF items[j].key \in IGNORED_HYPERPARS THEN JoinFrom(items, j + 1, first)
    ELSE (IF first THEN "" ELSE "_")
         \o items[j].key \o "=" \o PyStr(items[j].value)
         \o JoinFrom(items, j + 1, FALSE)

dict2str(items) == JoinFrom(items, 1, TRUE)

ConfigString(hp) == dict2str(flatten_dict(DictV(backend_hpars_prefix(hp)), ""))

HpStr(hp, k) == PyStr(GetValue(hp, k))

\* train, lines 120 and 124: dir + dict2str(...) + '.pt'
CheckpointPath(base, hp) ==
    base \o "ckpt/" \o HpStr(hp, "dataset") \o "/" \o HpStr(hp, "model") \o "/"
         \o ConfigString(hp) \o ".pt"

\* a variant of path_model that looks for the checkpoint under another
\* extension than the one train writes
path_model_OtherExt(base, hp) ==
    base \o "ckpt/" \o HpStr(hp, "dataset") \o "/" \o HpStr(hp, "model") \o "/"
         \o ConfigString(hp) \o ".pth"

\* evaluate, line 139: path_model, one expression
path_model(base, hp) ==
    base \o "ckpt/" \o HpStr(hp, "dataset") \o "/" \o HpStr(hp, "model") \o "/"
         \o ConfigString(hp) \o ".pt"

MetricsPath(base, hp) ==
    base \o "eval/metrics/" \o HpStr(hp, "dataset") \o "/" \o HpStr(hp, "model") \o "/"
         \o ConfigString(hp) \o ".csv"

ImagesPath(base, hp, suffix) ==
    base \o "eval/images/" \o HpStr(hp, "dataset") \o "/" \o HpStr(hp, "model") \o "/"
         \o ConfigString(hp) \o suffix

\* ------------------------------------------------------------------ state
VARIABLES
    hyperpars,                  \* the run configuration (a dict), never mutated
    base_dir,
    num_nonimproving_epochs,    \* train's patience budget
    metric_type,
    pc,                         \* position in train / evaluate
    epoch,                      \* index of the current iteration of train's loop
    lookahead_counter,
    best_metric,
    best_model_path,
    save_model,
    model_state,                \* parameters: number of training passes applied
    model_mode,                 \* "train" / "eval" flag of the model
    disk,                       \* the file system: path -> file content
    hist,                       \* the metric observed at each epoch so far
    train_result,               \* "none", "returned" or "raised"
    train_ret,                  \* the value train returned
    eval_model,                 \* the model evaluate loaded (its state), or -1
    eval_steps,                 \* the stages evaluate has run
    eval_result,                \* "none", "returned" or "raised"
    re_site,                    \* run_epoch: the call (caller, loader, optimizer)
    re_loader,                  \* run_epoch: the batches of the loader
    re_pc,                      \* run_epoch: position in the call
    re_i,                       \* run_epoch: index of the batch of the loop
    re_params,                  \* run_epoch: the model's parameters (a version)
    re_nll,                     \* run_epoch: nll of the current batch
    re_nll_sum,
    re_ops,                     \* run_epoch: the model/optimizer calls made
    re_result,                  \* run_epoch: "none", "returned" or "raised"
    re_ret,                     \* run_epoch: the value returned
    cfg_given,                  \* path derivation: two configurations as built
    cfg_now,                    \* path derivation: the same two objects now
    cfg_strs                    \* path derivation: the strings derived from each

runVars == <<re_site, re_loader, re_pc, re_i, re_params, re_nll, re_nll_sum,
             re_ops, re_result, re_ret>>

pathVars == <<cfg_given, cfg_now, cfg_strs>>

vars == <<hyperpars, base_dir, num_nonimproving_epochs, metric_type, pc, epoch,
          lookahead_counter, best_metric, best_model_path, save_model,
          model_state, model_mode, disk, hist, train_result, train_ret,
          eval_model, eval_steps, eval_result, runVars, pathVars>>

inputs == <<hyperpars, base_dir, num_nonimproving_epochs, metric_type>>
trainLocals == <<epoch, lookahead_counter, best_metric, best_model_path, save_model>>
evalVars == <<eval_model, eval_steps, eval_result>>

\* ---------------------------------------------------------------- inputs
\* a run configuration with the keys train and evaluate read
MkHyperpars(ne) ==
    << Item("dataset", StrV("qm9")),
       Item("model", StrV("pgc")),
       Item("order", StrV("canonical")),
       Item("fix", StrV("none")),
       Item("num_epochs", IntV(ne)),
       Item("atom_list", StrV("[6, 7, 8]")),
       Item("optimizer_hpars", DictV(<< Item("lr", StrV("0.05")) >>)) >>

MetricTypeInputs == {"score", "nll"}

\* values a maximize-type metric takes, and values a validation nll takes
MetricValues(mt) ==
    IF mt \in METRIC_TYPES THEN 0..MaxMetric
    ELSE (0..MaxMetric) \cup {BestMetricInitMin}

\* file contents
CkptFile(st) == [kind |-> "ckpt", state |-> st, ref |-> ""]
CorruptFile == [kind |-> "corrupt", state |-> 0, ref |-> ""]
CsvFile(model_path) == [kind |-> "csv", state |-> 0, ref |-> model_path]
PngFile == [kind |-> "png", state |-> 0, ref |-> ""]

Exists(p) == p \in DOMAIN disk
WriteFile(fs, p, c) == [q \in (DOMAIN fs) \cup {p} |-> IF q = p THEN c ELSE fs[q]]
RemoveFile(fs, p) == [q \in (DOMAIN fs) \ {p} |-> fs[q]]
EmptyDisk == [q \in {} |-> CorruptFile]

num_epochs == GetValue(hyperpars, "num_epochs").i

\* a tensor scalar: a finite value, or nan/inf
Finite(x) == [fin |-> TRUE, v |-> x]
NonFinite == [fin |-> FALSE, v |-> 0]
Zero == Finite(0)

\* no call of run_epoch is under way
PathIdle ==
    /\ cfg_given = <<>>
    /\ cfg_now = <<>>
    /\ cfg_strs = <<>>

RunIdle ==
    /\ re_site = [fn |-> "", loader |-> "", optimizer |-> FALSE]
    /\ re_loader = <<>>
    /\ re_pc = "off"
    /\ re_i = 0
    /\ re_params = 0
    /\ re_nll = Zero
    /\ re_nll_sum = Zero
    /\ re_ops = <<>>
    /\ re_result = "none"
    /\ re_ret = Zero

\* what an earlier run may have left at the checkpoint path: nothing, a
\* checkpoint of that run (state 0 is never saved by this run), or a file
\* that does not deserialize
InitialDisks(hp, base) ==
    { EmptyDisk,
      WriteFile(EmptyDisk, CheckpointPath(base, hp), CkptFile(0)),
      WriteFile(EmptyDisk, CheckpointPath(base, hp), CorruptFile) }

\* before train is called, with num_epochs up to n
InitUpTo(n) ==
    /\ \E ne \in 0..n : hyperpars = MkHyperpars(ne)
    /\ base_dir = "out/"
    /\ num_nonimproving_epochs \in 0..MaxPatience
    /\ metric_type \in MetricTypeInputs
    /\ pc = "idle"
    /\ epoch = 0
    /\ lookahead_counter = 0
    /\ best_metric = 0
    /\ best_model_path = None
    /\ save_model = FALSE
    /\ model_state = 0
    /\ model_mode = "train"
    /\ disk \in InitialDisks(hyperpars, base_dir)
    /\ hist = <<>>
    /\ train_result = "none"
    /\ train_ret = None
    /\ eval_model = -1
    /\ eval_steps = {}
    /\ eval_result = "none"
    /\ RunIdle
    /\ PathIdle

Init == InitUpTo(MaxEpochs)

\* the runs of train that evaluate is taken after
InitEvaluated == InitUpTo(MaxEpochsEvaluated)

\* ------------------------------------------------------------------ train
\* lines 72-83: the locals before the loop
TrainCall ==
    /\ pc = "idle"
    /\ lookahead_counter' = num_nonimproving_epochs
    /\ best_metric' = IF metric_type \in METRIC_TYPES
                      THEN BestMetricInitMax ELSE BestMetricInitMin
    /\ best_model_path' = None
    /\ save_model' = FALSE
    /\ epoch' = 0
    /\ pc' = "loop"
    /\ UNCHANGED <<inputs, runVars, pathVars, model_state, model_mode, disk, hist, train_result,
                   train_ret, evalVars>>

\* lines 85-89: the loop takes its next index; model.train(), one training
\* pass of run_epoch with the optimizer, model.eval()
TrainEpoch ==
    /\ pc = "loop"
    /\ epoch < num_epochs
    /\ model_state' = model_state + 1
    /\ model_mode' = "eval"
    /\ pc' = "metric"
    /\ UNCHANGED <<inputs, runVars, pathVars, trainLocals, disk, hist, train_result, train_ret, evalVars>>

\* a variant of Improves that breaks ties the same way in both directions
Improves_StrictBoth(mt, metric, best) ==
    IF mt \in METRIC_TYPES THEN metric > best ELSE metric < best

\* a variant of Improves that takes every epoch's value as the new best
Improves_Always(mt, metric, best) == TRUE

\* metric >= best_metric (maximize) / metric < best_metric (minimize)
Improves(mt, metric, best) ==
    IF mt \in METRIC_TYPES THEN metric >= best ELSE metric < best

\* lines 91-114: sample and score (or run the validation pass), then the
\* early-stopping update
EarlyStopUpdate ==
    /\ pc = "metric"
    /\ \E metric \in MetricValues(metric_type) :
         /\ hist' = Append(hist, metric)
         /\ IF Improves(metric_type, metric, best_metric)
            THEN /\ best_metric' = metric
                 /\ lookahead_counter' = num_nonimproving_epochs
                 /\ save_model' = TRUE
            ELSE /\ lookahead_counter' = lookahead_counter - 1
                 /\ UNCHANGED <<best_metric, save_model>>
    /\ pc' = "check"
    /\ UNCHANGED <<inputs, runVars, pathVars, epoch, best_model_path, model_state, model_mode, disk,
                   train_result, train_ret, evalVars>>

\* a variant of StopNow that tolerates one more non-improving epoch
StopNow_Late(counter) == counter < 0

\* line 116: lookahead_counter == 0
StopNow(counter) == counter = 0

\* lines 116-117: if lookahead_counter == 0: break
BreakCheck ==
    /\ pc = "check"
    /\ pc' = IF StopNow(lookahead_counter) THEN "ret" ELSE "save"
    /\ UNCHANGED <<inputs, runVars, pathVars, trainLocals, model_state, model_mode, disk, hist,
                   train_result, train_ret, evalVars>>

\* line 119 with save_model false: the iteration ends
SaveSkip ==
    /\ pc = "save"
    /\ ~save_model
    /\ epoch' = epoch + 1
    /\ pc' = "loop"
    /\ UNCHANGED <<inputs, runVars, pathVars, lookahead_counter, best_metric, best_model_path, save_model,
                   model_state, model_mode, disk, hist, train_result, train_ret, evalVars>>

\* lines 119-123: makedirs, then os.remove(best_model_path) when there is a
\* previous best; os.remove may raise OSError, which nothing catches
RemovePrevious ==
    /\ pc = "save"
    /\ save_model
    /\ IF best_model_path /= None
       THEN \E ok \in BOOLEAN :
              IF ok /\ Exists(best_model_path)
              THEN /\ disk' = RemoveFile(disk, best_model_path)
                   /\ pc' = "write"
                   /\ UNCHANGED train_result
              ELSE /\ pc' = "done"
                   /\ train_result' = "raised"
                   /\ UNCHANGED disk
       ELSE /\ pc' = "write"
            /\ UNCHANGED <<disk, train_result>>
    /\ UNCHANGED <<inputs, runVars, pathVars, trainLocals, model_state, model_mode, hist, train_ret, evalVars>>

\* lines 124-127: torch.save(model, path); best_model_path = path
WriteCheckpoint ==
    /\ pc = "write"
    /\ LET path == CheckpointPath(base_dir, hyperpars)
       IN  /\ disk' = WriteFile(disk, path, CkptFile(model_state))
           /\ best_model_path' = path
    /\ save_model' = FALSE
    /\ epoch' = epoch + 1
    /\ pc' = "loop"
    /\ UNCHANGED <<inputs, runVars, pathVars, lookahead_counter, best_metric, model_state, model_mode,
                   hist, train_result, train_ret, evalVars>>

\* line 85 exhausted, or the break: line 129, return best_model_path
TrainReturn ==
    /\ \/ pc = "loop" /\ epoch >= num_epochs
       \/ pc = "ret"
    /\ train_ret' = best_model_path
    /\ train_result' = "returned"
    /\ pc' = "done"
    /\ UNCHANGED <<inputs, runVars, pathVars, trainLocals, model_state, model_mode, disk, hist, evalVars>>

\* --------------------------------------------------------------- evaluate
\* a variant of EvalLoad that falls back to a fresh model when the file at
\* path_model cannot be loaded
EvalLoad_Fallback ==
    /\ pc \in {"idle", "done"}
    /\ LET pm == path_model(base_dir, hyperpars)
       IN  eval_model' = IF Exists(pm) /\ disk[pm].kind = "ckpt"
                         THEN disk[pm].state ELSE 0
    /\ model_mode' = "eval"
    /\ pc' = "e_compute"
    /\ UNCHANGED <<inputs, runVars, pathVars, trainLocals, model_state, disk, hist, train_result,
                   train_ret, eval_steps, eval_result>>

\* lines 139-141: path_model, torch.load, model.eval(); torch.load raises
\* when the file is absent or cannot be deserialized
EvalLoad ==
    /\ pc \in {"idle", "done"}
    /\ LET pm == path_model(base_dir, hyperpars)
       IN  IF Exists(pm) /\ disk[pm].kind = "ckpt"
           THEN /\ eval_model' = disk[pm].state
                /\ model_mode' = "eval"
                /\ pc' = "e_compute"
                /\ UNCHANGED eval_result
           ELSE /\ eval_result' = "raised"
                /\ pc' = "e_done"
                /\ UNCHANGED <<eval_model, model_mode>>
    /\ UNCHANGED <<inputs, runVars, pathVars, trainLocals, model_state, disk, hist, train_result,
                   train_ret, eval_steps>>

\* lines 146-189: sample_with_fix, resample_invalid_mols, the three run_epoch
\* passes without an optimizer when compute_nll is set, evaluate_molecules
\* for both batches; none of them writes a file or updates a parameter
EvalCompute ==
    /\ pc = "e_compute"
    /\ \E compute_nll \in BOOLEAN :
         eval_steps' = {"sample", "resample", "metrics"}
                         \cup (IF compute_nll THEN {"nll"} ELSE {})
    /\ pc' = "e_csv"
    /\ UNCHANGED <<inputs, runVars, pathVars, trainLocals, model_state, model_mode, disk, hist,
                   train_result, train_ret, eval_model, eval_result>>

\* lines 191-196: the one-row table with the model_path column
EvalWriteCsv ==
    /\ pc = "e_csv"
    /\ disk' = WriteFile(disk, MetricsPath(base_dir, hyperpars),
                         CsvFile(path_model(base_dir, hyperpars)))
    /\ pc' = "e_img"
    /\ UNCHANGED <<inputs, runVars, pathVars, trainLocals, model_state, model_mode, hist,
                   train_result, train_ret, evalVars>>

\* lines 198-210: the two image grids, then return metrics
EvalWriteImages ==
    /\ pc = "e_img"
    /\ disk' = WriteFile(WriteFile(disk, ImagesPath(base_dir, hyperpars, "_san.png"), PngFile),
                         ImagesPath(base_dir, hyperpars, "_res.png"), PngFile)
    /\ eval_result' = "returned"
    /\ pc' = "e_done"
    /\ UNCHANGED <<inputs, runVars, pathVars, trainLocals, model_state, model_mode, hist,
                   train_result, train_ret, eval_model, eval_steps>>

\* -------------------------------------------------------------- run_epoch
\* the calls of run_epoch: line 87 (with the optimizer), line 106 and lines
\* 166-168 (optimizer left at its default [])
CallSites ==
    { [fn |-> "train", loader |-> "loader_trn", optimizer |-> TRUE],
      [fn |-> "train", loader |-> "loader_val", optimizer |-> FALSE],
      [fn |-> "evaluate", loader |-> "loader_trn", optimizer |-> FALSE],
      [fn |-> "evaluate", loader |-> "loader_val", optimizer |-> FALSE],
      [fn |-> "evaluate", loader |-> "loader_tst", optimizer |-> FALSE] }

\* a batch: its data, and whether the model's logpdf is finite on it
Batches ==
    { [data |-> x, finite |-> TRUE] : x \in 0..MaxBatchValue }
        \cup { [data |-> 0, finite |-> FALSE] }

Loaders == UNION { [1..n -> Batches] : n \in 0..MaxBatches }

\* -model.logpdf(v, e): depends on the batch and on the current parameters
NegLogPdf(batch, params) ==
    IF batch.finite THEN Finite(batch.data + params) ELSE NonFinite

\* a variant of Accumulate that keeps only the last batch's loss
Accumulate_Assign(total, nll) == nll

\* line 52: nll_sum += nll ; nan and inf absorb
Accumulate(total, nll) ==
    IF total.fin /\ nll.fin THEN Finite(total.v + nll.v) ELSE NonFinite

\* a variant of UsesOptimizer that updates on every call
UsesOptimizer_Always(site) == TRUE

\* line 53: if optimizer (the default [] is falsy, an optimizer object truthy)
UsesOptimizer(site) == site.optimizer

\* line 58: the float division nll_sum.item() / len(loader), as the fraction
Mean(total, n) == [fin |-> total.fin, num |-> total.v, den |-> n]

\* the state in which one call of run_epoch starts
\* neither train nor evaluate is running
TrainOff(at) ==
    /\ hyperpars = MkHyperpars(0)
    /\ base_dir = "out/"
    /\ num_nonimproving_epochs = 0
    /\ metric_type = "score"
    /\ pc = at
    /\ epoch = 0
    /\ lookahead_counter = 0
    /\ best_metric = 0
    /\ best_model_path = None
    /\ save_model = FALSE
    /\ model_state = 0
    /\ model_mode = "train"
    /\ disk = EmptyDisk
    /\ hist = <<>>
    /\ train_result = "none"
    /\ train_ret = None
    /\ eval_model = -1
    /\ eval_steps = {}
    /\ eval_result = "none"

InitRun ==
    /\ TrainOff("run_epoch")
    /\ PathIdle
    /\ re_site \in CallSites
    /\ re_loader \in Loaders
    /\ re_pc = "call"
    /\ re_i = 0
    /\ re_params = 0
    /\ re_nll = Zero
    /\ re_nll_sum = Zero
    /\ re_ops = <<>>
    /\ re_result = "none"
    /\ re_ret = Zero

trainVars == <<hyperpars, base_dir, num_nonimproving_epochs, metric_type, pc, epoch,
               lookahead_counter, best_metric, best_model_path, save_model,
               model_state, model_mode, disk, hist, train_result, train_ret,
               eval_model, eval_steps, eval_result>>

\* line 47: nll_sum = 0. ; line 48: the loop starts
RunEpochCall ==
    /\ re_pc = "call"
    /\ re_nll_sum' = Zero
    /\ re_i' = 1
    /\ re_pc' = "batch"
    /\ UNCHANGED <<trainVars, pathVars, re_site, re_loader, re_params, re_nll, re_ops,
                   re_result, re_ret>>

\* lines 48-53: the next batch; nll = -model.logpdf(v, e); nll_sum += nll
BatchLoss ==
    /\ re_pc = "batch"
    /\ re_i <= Len(re_loader)
    /\ LET nll == NegLogPdf(re_loader[re_i], re_params)
       IN  /\ re_nll' = nll
           /\ re_nll_sum' = Accumulate(re_nll_sum, nll)
    /\ re_ops' = Append(re_ops, "logpdf")
    /\ IF UsesOptimizer(re_site)
       THEN re_pc' = "zero_grad" /\ UNCHANGED re_i
       ELSE re_pc' = "batch" /\ re_i' = re_i + 1
    /\ UNCHANGED <<trainVars, pathVars, re_site, re_loader, re_params, re_result, re_ret>>

\* line 54: optimizer.zero_grad()
ZeroGrad ==
    /\ re_pc = "zero_grad"
    /\ re_ops' = Append(re_ops, "zero_grad")
    /\ re_pc' = "backward"
    /\ UNCHANGED <<trainVars, pathVars, re_site, re_loader, re_i, re_params, re_nll,
                   re_nll_sum, re_result, re_ret>>

\* line 55: nll.backward()
Backward ==
    /\ re_pc = "backward"
    /\ re_ops' = Append(re_ops, "backward")
    /\ re_pc' = "step"
    /\ UNCHANGED <<trainVars, pathVars, re_site, re_loader, re_i, re_params, re_nll,
                   re_nll_sum, re_result, re_ret>>

\* line 56: optimizer.step() updates the parameters; the loop goes on
OptimizerStep ==
    /\ re_pc = "step"
    /\ re_ops' = Append(re_ops, "step")
    /\ re_params' = re_params + 1
    /\ re_i' = re_i + 1
    /\ re_pc' = "batch"
    /\ UNCHANGED <<trainVars, pathVars, re_site, re_loader, re_nll, re_nll_sum,
                   re_result, re_ret>>

\* line 58: return nll_sum.item() / len(loader). With no batch nll_sum is
\* still the float 0., which has no item(): the call raises. A nan or inf
\* sum is returned like any other value.
RunEpochReturn ==
    /\ re_pc = "batch"
    /\ re_i > Len(re_loader)
    /\ IF Len(re_loader) = 0
       THEN re_result' = "raised" /\ UNCHANGED re_ret
       ELSE re_result' = "returned" /\ re_ret' = Mean(re_nll_sum, Len(re_loader))
    /\ re_pc' = "done"
    /\ UNCHANGED <<trainVars, pathVars, re_site, re_loader, re_i, re_params, re_nll,
                   re_nll_sum, re_ops>>

NextRun ==
    \/ RunEpochCall
    \/ BatchLoss
    \/ ZeroGrad
    \/ Backward
    \/ OptimizerStep
    \/ RunEpochReturn

\* one call of run_epoch, from any of its call sites, on any loader
SpecRun == InitRun /\ [][NextRun]_vars

\* -------------------------------------------------------- path derivation
\* values a hyperparameter takes
HparValues == {1, 2}

\* the 'optimizer' key holds a scalar or a nested mapping; 'atom_list' sits
\* at the top level or inside a group
OptimizerShapes == {"scalar", "mapping"}
AtomListPlaces == {"top", "group"}

HparFields == {"optimizer", "atom_list", "lr", "sched_lr", "nl", "vt_nl"}
HparVectors == [HparFields -> HparValues]

\* str(list) of an atom vocabulary
AtomList(n) == StrV("[6, " \o ToString(5 + n) \o "]")

\* a run configuration: dataset, model, the two ignored keys, two groups
\* with a hyperparameter of the same name, two backend groups
MkConfig(shape, place, v) ==
    << Item("dataset", StrV("qm9")),
       Item("model", StrV("pgc")) >>
    \o (IF place = "top"
        THEN << Item("atom_list", AtomList(v["atom_list"])) >>
        ELSE << Item("data_hpars",
                     DictV(<< Item("atom_list", AtomList(v["atom_list"])) >>)) >>)
    \o (IF shape = "scalar"
        THEN << Item("optimizer", IntV(v["optimizer"])) >>
        ELSE << Item("optimizer",
                     DictV(<< Item("beta", IntV(v["optimizer"])) >>)) >>)
    \o << Item("optimizer_hpars", DictV(<< Item("lr", IntV(v["lr"])) >>)),
          Item("sched_hpars", DictV(<< Item("lr", IntV(v["sched_lr"])) >>)),
          Item("be_hpars", DictV(<< Item("nl", IntV(v["nl"])) >>)),
          Item("bvt_hpars", DictV(<< Item("nl", IntV(v["vt_nl"])) >>)) >>

\* pairs of configurations of one key structure whose values differ in at
\* most two hyperparameters
ConfigPairs ==
    { << MkConfig(shape, place, vv[1]), MkConfig(shape, place, vv[2]) >> :
        shape \in OptimizerShapes, place \in AtomListPlaces,
        vv \in { w \in HparVectors \X HparVectors :
                   Cardinality({f \in HparFields : w[1][f] /= w[2][f]}) <= 2 } }

\* a variant of ArgAfterCall in which backend_hpars_prefix assigns the
\* prefixed groups into the mapping it was given
ArgAfterCall_InPlace(d) == backend_hpars_prefix(d)

\* the mapping passed in, after the call: backend_hpars_prefix assigns only
\* into its own o (lines 30-43), flatten_dict and dict2str build new objects
ArgAfterCall(d) == d

InitPath ==
    /\ TrainOff("path")
    /\ RunIdle
    /\ cfg_given \in ConfigPairs
    /\ cfg_now = cfg_given
    /\ cfg_strs = << <<>>, <<>> >>

\* lines 124, 139, 193, 200: dict2str(flatten_dict(backend_hpars_prefix(hyperpars)))
DerivePath(i) ==
    /\ pc = "path"
    /\ Len(cfg_strs[i]) < MaxCalls
    /\ cfg_strs' = [cfg_strs EXCEPT ![i] = Append(@, ConfigString(cfg_now[i]))]
    /\ cfg_now' = [cfg_now EXCEPT ![i] = ArgAfterCall(@)]
    /\ UNCHANGED <<trainVars, runVars, cfg_given>>

NextPath == \E i \in 1..2 : DerivePath(i)

\* the path string derived, repeatedly, from each of two configurations
SpecPath == InitPath /\ [][NextPath]_vars

\* ------------------------------------------------------------ specification
Next ==
    \/ TrainCall
    \/ TrainEpoch
    \/ EarlyStopUpdate
    \/ BreakCheck
    \/ SaveSkip
    \/ RemovePrevious
    \/ WriteCheckpoint
    \/ TrainReturn
    \/ EvalLoad
    \/ EvalCompute
    \/ EvalWriteCsv
    \/ EvalWriteImages

\* train followed (or not) by evaluate, or evaluate alone
Spec == InitEvaluated /\ [][Next]_vars

\* one call of train
NextTrain ==
    \/ TrainCall
    \/ TrainEpoch
    \/ EarlyStopUpdate
    \/ BreakCheck
    \/ SaveSkip
    \/ RemovePrevious
    \/ WriteCheckpoint
    \/ TrainReturn

SpecTrain == Init /\ [][NextTrain]_vars

\* ------------------------------------------------- vocabulary of the claims
Maximize == metric_type \in METRIC_TYPES
Patience == num_nonimproving_epochs
DerivedPath == CheckpointPath(base_dir, hyperpars)

\* what "at least as good" means for the direction, stated from the claims:
\* ties improve only when maximizing
AsGood(m, best) == IF Maximize THEN m >= best ELSE m < best

\* best_metric before the k-th observation of h (k = 1 is epoch 0)
RECURSIVE BestBefore(_, _)
BestBefore(h, k) ==
    IF k = 1 THEN (IF Maximize THEN BestMetricInitMax ELSE BestMetricInitMin)
    ELSE IF AsGood(h[k - 1], BestBefore(h, k - 1)) THEN h[k - 1]
    ELSE BestBefore(h, k - 1)

ImprovedAt(h, k) == AsGood(h[k], BestBefore(h, k))
EverImproved(h) == \E k \in 1..Len(h) : ImprovedAt(h, k)

\* the last observation (1-based) that improved; the model then had k passes
LastImproved(h) == CHOOSE k \in 1..Len(h) :
                       ImprovedAt(h, k) /\ \A j \in (k + 1)..Len(h) : ~ImprovedAt(h, j)

\* the number of improving observations at the end of h
RECURSIVE ImprovingStreak(_)
ImprovingStreak(h) ==
    IF Len(h) = 0 \/ ~ImprovedAt(h, Len(h)) THEN 0
    ELSE 1 + ImprovingStreak(SubSeq(h, 1, Len(h) - 1))

Constant(h) == \A j \in 1..Len(h) : h[j] = h[1]
StrictlyIncreasing(h) == \A j \in 1..(Len(h) - 1) : h[j] < h[j + 1]

CheckpointFiles == {q \in DOMAIN disk : disk[q].kind \in {"ckpt", "corrupt"}}

\* the loop is between two iterations, or train has returned
EpochBoundary == pc \in {"loop", "ret"} \/ (pc = "done" /\ train_result = "returned")
Returned == pc = "done" /\ train_result = "returned"

\* the break at line 117 was taken (the loop did not run out of epochs)
Stopped == pc = "ret" \/ (Returned /\ epoch < num_epochs)

\* the early-stopping decision of the current epoch has been acted upon
Decided == pc \notin {"idle", "check"}

\* --------------------------------------------------------------------- C1
\* C1: during train at most one checkpoint file exists for the run
\* configuration at every point in time, and at every epoch boundary after
\* N >= 1 consecutive improving epochs exactly one checkpoint file exists, at
\* the configuration-derived path.
C1_SingleCheckpoint ==
    /\ Cardinality(CheckpointFiles) <= 1
    /\ (EpochBoundary /\ ImprovingStreak(hist) >= 1) => CheckpointFiles = {DerivedPath}

\* --------------------------------------------------------------------- C2
\* the scenario: maximize, 5 epochs, patience 2, metrics 0.1 0.3 0.2 0.2 0.2
Scenario == <<1, 3, 2, 2, 2>>
IsPrefix(h, full) == Len(h) <= Len(full) /\ \A j \in 1..Len(h) : h[j] = full[j]
InScenario ==
    /\ Maximize
    /\ num_epochs = 5
    /\ Patience = 2
    /\ IsPrefix(hist, Scenario)

\* C2 as stated: in the scenario train stops after epoch index 4 (all five
\* metrics are observed) and the checkpoint on disk is the one of epoch 1.
C2_ScenarioStopsAfterEpoch4 ==
    (InScenario /\ Returned) =>
        /\ hist = Scenario
        /\ train_ret = DerivedPath
        /\ Exists(DerivedPath)
        /\ disk[DerivedPath] = CkptFile(2)

\* C2 amended: in the scenario train stops at epoch index 3, the second
\* consecutive non-improving epoch after the best at epoch 1; epoch 4 never
\* runs; the returned checkpoint holds the model state captured at epoch 1.
C2_ScenarioStopsAtEpoch3 ==
    (InScenario /\ Returned) =>
        /\ hist = SubSeq(Scenario, 1, 4)
        /\ epoch = 3
        /\ model_state = 4
        /\ train_ret = DerivedPath
        /\ Exists(DerivedPath)
        /\ disk[DerivedPath] = CkptFile(2)

C2_Witness ==
    InScenario /\ Returned /\ Len(hist) = 4 /\ lookahead_counter = 0

\* --------------------------------------------------------------------- C3
\* C3 as stated: for P >= 1 and either direction, on a constant metric
\* sequence the loop breaks exactly when P+1 values have been observed (at
\* epoch index P), not earlier and not later.
C3_ConstantStopsAtP ==
    (Patience >= 1 /\ Decided /\ Len(hist) >= 1 /\ Constant(hist)) =>
        (Stopped <=> Len(hist) = Patience + 1)

\* C3 amended: for P >= 1, on a constant metric sequence: when minimizing
\* with a value below the initial best_metric the loop breaks exactly at
\* epoch index P; when minimizing with a value that never improves on the
\* initial best_metric it breaks at epoch index P-1 (epoch 0 is already
\* non-improving); when maximizing every epoch is a tie, counts as an
\* improvement, and the loop never breaks.
C3_ConstantSequence ==
    (Patience >= 1 /\ Decided /\ Len(hist) >= 1 /\ Constant(hist)) =>
        IF Maximize
        THEN ~Stopped /\ lookahead_counter = Patience
        ELSE IF hist[1] < BestMetricInitMin
        THEN Stopped <=> Len(hist) = Patience + 1
        ELSE Stopped <=> Len(hist) = Patience

C3_Witness ==
    /\ ~Maximize
    /\ Patience = 2
    /\ hist = <<1, 1, 1>>
    /\ pc = "ret"
    /\ epoch = Patience

\* --------------------------------------------------------------------- C4
\* C4: STOPPED is terminal. On a non-improving epoch the patience counter is
\* decremented; when the counter is zero after an epoch's update the loop
\* ends on that very epoch; and from the break on, train runs no training
\* pass, observes no metric and writes no checkpoint: it only returns.
C4_StoppedIsTerminal ==
    [][ /\ (pc = "metric" /\ ~AsGood(hist'[Len(hist')], best_metric))
            => lookahead_counter' = lookahead_counter - 1
        /\ (pc = "check" /\ lookahead_counter = 0) => pc' = "ret"
        /\ (pc = "check" /\ lookahead_counter /= 0) => pc' /= "ret"
        /\ pc = "ret" => /\ pc' = "done"
                         /\ train_result' = "returned"
                         /\ UNCHANGED <<model_state, hist, disk, epoch>>
        /\ (pc = "done" /\ Stopped) => UNCHANGED <<model_state, hist, disk, epoch>>
      ]_vars

\* the break was taken with epochs of the budget left, and nothing ran since
C4_Witness ==
    /\ Returned
    /\ lookahead_counter = 0
    /\ Patience = 2
    /\ epoch + 2 < num_epochs
    /\ model_state = epoch + 1
    /\ Len(hist) = epoch + 1

\* --------------------------------------------------------------------- C5
\* C5: for every metric sequence, patience budget and epoch budget, train
\* returns the path of the last-saved checkpoint, and returns None exactly
\* when no epoch's metric counted as an improvement over the initial
\* best_metric.
C5_ReturnsLastSaved ==
    Returned =>
        /\ train_ret = None <=> ~EverImproved(hist)
        /\ train_ret /= None =>
              /\ train_ret = DerivedPath
              /\ Exists(train_ret)
              /\ disk[train_ret].kind = "ckpt"

\* --------------------------------------------------------------------- C6
\* C6: whenever an epoch's metric counts as an improvement, the checkpoint of
\* the model of that epoch is on disk at the configuration-derived path
\* before the next epoch starts or train returns; so when train returns the
\* file holds the model state of the last epoch that updated best_metric.
C6_SaveOnImprovement ==
    ((pc = "loop" \/ Returned) /\ EverImproved(hist)) =>
        /\ Exists(DerivedPath)
        /\ disk[DerivedPath] = CkptFile(LastImproved(hist))

\* --------------------------------------------------------------------- C7
\* C7: the early-stopping transition. When maximizing a value >= best_metric
\* improves, when minimizing only a value < best_metric does; an improvement
\* sets best_metric to the value, resets the patience counter to the budget
\* and signals a save; a non-improvement leaves best_metric unchanged.
C7_Transition ==
    [][ pc = "metric" =>
          LET m == hist'[Len(hist')]
          IN  IF (Maximize /\ m >= best_metric) \/ (~Maximize /\ m < best_metric)
              THEN /\ best_metric' = m
                   /\ lookahead_counter' = Patience
                   /\ save_model'
              ELSE /\ best_metric' = best_metric
                   /\ save_model' = save_model
      ]_vars

\* a tie while maximizing has just been taken as an improvement
C7_Witness ==
    /\ Maximize
    /\ pc = "check"
    /\ hist = <<2, 1, 2>>
    /\ Patience = 2
    /\ best_metric = 2
    /\ lookahead_counter = Patience
    /\ save_model

\* --------------------------------------------------------------------- C8
\* C8: on a strictly increasing sequence of maximize-type metric values the
\* patience counter equals the configured budget after every epoch, and the
\* loop does not stop early.
C8_IncreasingNeverStops ==
    (Maximize /\ pc /= "idle" /\ StrictlyIncreasing(hist)) =>
        /\ lookahead_counter = Patience
        /\ ~Stopped

\* --------------------------------------------------------------------- C9
\* C9: a failure to delete the previous best checkpoint is not fatal: from
\* the save of a new best with a previous best present, train always goes on
\* to write the new checkpoint, whether or not the delete succeeded.
C9_DeleteFailureNonFatal ==
    [][ (pc = "save" /\ save_model /\ best_model_path /= None)
          => (pc' = "write" /\ train_result' /= "raised") ]_vars

\* -------------------------------------------------------------------- C10
Readable(q) == Exists(q) /\ disk[q].kind = "ckpt"
EvalOutputs == { MetricsPath(base_dir, hyperpars),
                 ImagesPath(base_dir, hyperpars, "_san.png"),
                 ImagesPath(base_dir, hyperpars, "_res.png") }

\* C10: when no readable checkpoint exists at the configuration-derived path
\* evaluate fails at the load step: it never gets past the load, runs no
\* sampling (or any later stage), and writes no metrics table or image.
C10_LoadFailureIsFatal ==
    /\ eval_result = "raised" =>
          /\ eval_steps = {}
          /\ eval_model = -1
          /\ EvalOutputs \cap DOMAIN disk = {}
    /\ (pc \in {"e_compute", "e_csv", "e_img", "e_done"} /\ ~Readable(DerivedPath)) =>
          /\ pc = "e_done"
          /\ eval_result = "raised"

\* train improved nothing and returned None; evaluate then failed at the load
C10_Witness ==
    /\ train_result = "returned"
    /\ train_ret = None
    /\ Len(hist) >= 1
    /\ ~Exists(DerivedPath)
    /\ eval_result = "raised"

\* -------------------------------------------------------------------- C11
OptimizerOps == {"zero_grad", "backward", "step"}

\* C11: a call of run_epoch without an optimizer (the validation pass of
\* train, the three likelihood passes of evaluate) never changes a model
\* parameter and never makes an optimizer call, whatever the loader.
C11_EvalModeKeepsParams ==
    ~re_site.optimizer =>
        /\ re_params = 0
        /\ \A j \in 1..Len(re_ops) : re_ops[j] \notin OptimizerOps

\* a likelihood pass of evaluate over several batches has returned
C11_Witness ==
    /\ re_site = [fn |-> "evaluate", loader |-> "loader_tst", optimizer |-> FALSE]
    /\ re_result = "returned"
    /\ Len(re_loader) >= 2
    /\ Len(re_ops) = Len(re_loader)
    /\ re_params = 0

\* -------------------------------------------------------------------- C12
\* C12: when the loss of some batch is non-finite, run_epoch fails with a
\* numerical error instead of returning a value (and so train aborts).
C12_NonFiniteLossRaises ==
    (re_pc = "done" /\ \E k \in 1..Len(re_loader) : ~re_loader[k].finite)
        => re_result = "raised"

\* -------------------------------------------------------------------- C16
\* the loss of batch k as the claim has it: computed before that batch's
\* optimizer step and after the steps of the batches before it
LossOfBatch(k) ==
    NegLogPdf(re_loader[k], IF re_site.optimizer THEN k - 1 ELSE 0)

RECURSIVE SumOfLosses(_)
SumOfLosses(k) == IF k = 0 THEN 0 ELSE LossOfBatch(k).v + SumOfLosses(k - 1)

AllFinite == \A k \in 1..Len(re_loader) : LossOfBatch(k).fin

MeanOfLosses ==
    [fin |-> AllFinite,
     num |-> IF AllFinite THEN SumOfLosses(Len(re_loader)) ELSE 0,
     den |-> Len(re_loader)]

RECURSIVE CallsPerBatch(_)
CallsPerBatch(n) ==
    IF n = 0 THEN <<>>
    ELSE CallsPerBatch(n - 1)
           \o (IF re_site.optimizer
               THEN <<"logpdf", "zero_grad", "backward", "step">>
               ELSE <<"logpdf">>)

\* C16 as stated: for every loader, in training and in evaluation mode,
\* run_epoch returns the sum of the per-batch losses divided by the number
\* of batches, each loss computed before that batch's single optimizer step
\* (zero_grad, backward, step, in that order, once per batch).
C16_MeanOfBatchLosses ==
    re_pc = "done" =>
        /\ re_result = "returned"
        /\ re_ret = MeanOfLosses
        /\ re_ops = CallsPerBatch(Len(re_loader))

\* C16 amended: the same for every loader with at least one batch; on a
\* loader with no batch run_epoch raises instead of returning.
C16_MeanOfBatchLossesNonEmpty ==
    re_pc = "done" =>
        IF Len(re_loader) >= 1
        THEN /\ re_result = "returned"
             /\ re_ret = MeanOfLosses
             /\ re_ops = CallsPerBatch(Len(re_loader))
             /\ re_params = IF re_site.optimizer THEN Len(re_loader) ELSE 0
        ELSE re_result = "raised"

\* a training pass over three batches with different losses has returned
C16_Witness ==
    /\ re_site.optimizer
    /\ re_result = "returned"
    /\ Len(re_loader) = 3
    /\ re_loader[1].data /= re_loader[2].data
    /\ AllFinite
    /\ re_ret.num > 3
    /\ Len(re_ops) = 12

\* -------------------------------------------------------------------- C13
Evaluated == pc \in {"e_compute", "e_csv", "e_img", "e_done"}

\* C13: for the same hyperpars and base_dir the path evaluate loads from is
\* the path train wrote to and returned, whenever train returned a path; so
\* evaluate after such a train does load, and loads the checkpoint train
\* saved last.
C13_EvaluateLoadsTrainedCheckpoint ==
    (train_result = "returned" /\ train_ret /= None) =>
        /\ train_ret = path_model(base_dir, hyperpars)
        /\ Evaluated =>
             /\ eval_result /= "raised"
             /\ eval_model = LastImproved(hist)
             /\ disk[train_ret] = CkptFile(eval_model)

\* evaluate has run to its end on the checkpoint of an epoch that was not
\* the last one train ran
C13_Witness ==
    /\ train_result = "returned"
    /\ train_ret /= None
    /\ pc = "e_done"
    /\ eval_result = "returned"
    /\ eval_model >= 2
    /\ Len(hist) > eval_model

\* -------------------------------------------------------------------- C14
\* the two configurations under comparison, as values
GivenA == DictV(cfg_given[1])
GivenB == DictV(cfg_given[2])
BothDerived == pc = "path" /\ Len(cfg_strs[1]) >= 1 /\ Len(cfg_strs[2]) >= 1

\* a and b have the same keys in the same order at every level and the same
\* values everywhere except under an ignored key, at whatever level it sits
RECURSIVE EqualButIgnored(_, _)
EqualButIgnored(a, b) ==
    IF a.t = "dict" /\ b.t = "dict"
    THEN /\ Len(a.d) = Len(b.d)
         /\ \A j \in 1..Len(a.d) :
              /\ a.d[j].key = b.d[j].key
              /\ \/ a.d[j].key \in IGNORED_HYPERPARS
                 \/ EqualButIgnored(a.d[j].value, b.d[j].value)
    ELSE a = b

\* C14: two configurations that differ only in the value of an ignored key
\* ('atom_list' or 'optimizer'), at any nesting level, the value a scalar, a
\* list or a nested mapping, derive the same path string.
C14_IgnoredKeyValueIrrelevant ==
    (BothDerived /\ EqualButIgnored(GivenA, GivenB))
        => cfg_strs[1][1] = cfg_strs[2][1]

RECURSIVE SameKeys(_, _)
SameKeys(a, b) ==
    IF a.t = "dict" /\ b.t = "dict"
    THEN /\ Len(a.d) = Len(b.d)
         /\ \A j \in 1..Len(a.d) :
              /\ a.d[j].key = b.d[j].key
              /\ SameKeys(a.d[j].value, b.d[j].value)
    ELSE a.t /= "dict" /\ b.t /= "dict"

\* C17: two configurations with the same key structure that differ in the
\* value of at least one non-ignored hyperparameter (at any level, also one
\* whose name occurs in another group, also one of a backend group) derive
\* distinct path strings, hence distinct checkpoint paths.
C17_DistinctConfigsDistinctPaths ==
    (BothDerived /\ SameKeys(GivenA, GivenB) /\ ~EqualButIgnored(GivenA, GivenB))
        => cfg_strs[1][1] /= cfg_strs[2][1]

\* -------------------------------------------------------------------- C18
\* the number of consecutive non-improving observations at the end of h
RECURSIVE NonImprovingRun(_)
NonImprovingRun(h) ==
    IF Len(h) = 0 \/ ImprovedAt(h, Len(h)) THEN 0
    ELSE 1 + NonImprovingRun(SubSeq(h, 1, Len(h) - 1))

\* C18: for every patience budget and every metric sequence the patience
\* counter stays within 0..budget in every state of train (it never becomes
\* negative) and equals the budget minus the number of consecutive
\* non-improving epochs since the last improvement.
C18_CounterInRange ==
    pc /= "idle" =>
        /\ lookahead_counter \in 0..Patience
        /\ lookahead_counter = Patience - NonImprovingRun(hist)

\* -------------------------------------------------------------------- C19
SetMax(S) == CHOOSE x \in S : \A y \in S : y <= x
SetMin(S) == CHOOSE x \in S : \A y \in S : x <= y
Observed == {hist[j] : j \in 1..Len(hist)}

\* C19: best_metric never moves in the worsening direction: after each
\* epoch it is the maximum of 0 and all metric values observed so far when
\* maximizing, the minimum of 1e6 and all validation nlls observed so far
\* when minimizing.
C19_BestIsExtremum ==
    pc /= "idle" =>
        best_metric = IF Maximize
                      THEN SetMax({BestMetricInitMax} \cup Observed)
                      ELSE SetMin({BestMetricInitMin} \cup Observed)

\* after a worse epoch the best value is still the one of an earlier epoch
C19_Witness ==
    /\ Maximize
    /\ pc = "check"
    /\ hist = <<1, 3, 2>>
    /\ best_metric = 3

\* -------------------------------------------------------------------- C20
\* C20: when maximizing, with metric values >= 0 and num_epochs >= 1, for
\* every patience budget epoch 0 is an improvement over the initial
\* best_metric 0; so train never returns None, and from the end of epoch 0
\* until train returns a checkpoint file exists at the returned path.
C20_FirstEpochAlwaysSaved ==
    (Maximize /\ num_epochs >= 1) =>
        /\ Returned => train_ret = DerivedPath
        /\ ((pc = "loop" /\ epoch >= 1) \/ Returned) => Readable(DerivedPath)

====
